---- MODULE Spec2Model ----
(***************************************************************************)
(* A model of src/main.py: GrobidClient (extraction of one TEI document   *)
(* into a paper record) and LiteratureAnalyzer (ingestion of a directory  *)
(* of PDF files, theme extraction, reference analysis, and the report      *)
(* operations generate_review, analyze and generate_comprehensive_report). *)
(*                                                                         *)
(* Python strings are sequences of one-character strings.  A value that   *)
(* is either a str or None is a record [py, s]: py is "str" or "None".    *)
(***************************************************************************)
EXTENDS Integers, Sequences, FiniteSets, TLC

\* ------------------------------------------------------------------ bounds

\* The largest number of PDF files in the input directory.
MaxFiles == 3

\* ------------------------------------------------------- Python values

None == [py |-> "None", s |-> <<>>]

Str(s) == [py |-> "str", s |-> s]

\* bool(v) for a str or None: None and '' are falsy.
Truthy(v) == v.py = "str" /\ v.s # <<>>

\* str(v), as an f-string formats {v}: None is formatted as 'None'.
Format(v) == IF v.py = "None" THEN <<"N", "o", "n", "e">> ELSE v.s

\* dict.get(key, default): the default is used only when the key is absent.
Get(d, key, default) == IF key \in DOMAIN d THEN d[key] ELSE default

\* The literals of the summary rules.
UnknownTitle ==
    <<"U", "n", "k", "n", "o", "w", "n", " ", "T", "i", "t", "l", "e">>

NoAbstract ==
    <<"N", "o", " ", "a", "b", "s", "t", "r", "a", "c", "t", " ",
      "a", "v", "a", "i", "l", "a", "b", "l", "e">>

Ellipsis == <<".", ".", ".">>

\* The slice bound of abstract[:500].
AbstractLimit == 500

\* s[:n]
Prefix(s, n) == SubSeq(s, 1, IF Len(s) < n THEN Len(s) ELSE n)

\* ------------------------------------------- TEI documents (the input)

\* A text of n characters whose i-th character depends on i.
Text(n) == [i \in 1..n |-> IF i % 3 = 0 THEN "a" ELSE IF i % 3 = 1 THEN "b" ELSE "c"]

\* An XML element as root.find sees it: found or not, and its text
\* (title.text, or "".join(el.itertext()) for abstract and body).
Absent == [found |-> FALSE, text |-> None]

El(text) == [found |-> TRUE, text |-> text]

RefX == <<"X">>
RefY == <<"Y">>
RefZ == <<"Z">>

\* A short abstract.
ShortAbstract == El(Str(<<"a", "b">>))

Doc(t, a, b, r) == [title |-> t, abstract |-> a, body |-> b, refs |-> r]

TitleT == El(Str(<<"T">>))

BodyB == El(Str(<<"B">>))

RX == El(Str(RefX))
RY == El(Str(RefY))
RZ == El(Str(RefZ))

\* The documents the extraction service may return.  Together they cover
\* every subset of {title, abstract, body} missing, a title element with no
\* text, the abstract lengths around the limit, and reference lists that are
\* empty, disjoint, overlapping, with a duplicate, and with entries that
\* have no title.
Docs ==
    {Doc(TitleT, ShortAbstract, BodyB, <<RX>>),
     Doc(Absent, ShortAbstract, BodyB, <<>>),
     Doc(TitleT, Absent, Absent, <<RY>>),
     Doc(Absent, Absent, BodyB, <<RX, RY>>),
     Doc(El(None), ShortAbstract, Absent, <<RX, RZ>>),
     Doc(Absent, Absent, Absent, <<RX, RX>>),
     Doc(TitleT, El(Str(Text(AbstractLimit))), BodyB, <<RY, Absent, El(None)>>),
     Doc(TitleT, El(Str(Text(AbstractLimit + 1))), BodyB, <<RX>>),
     Doc(TitleT, El(Str(<<>>)), BodyB, <<RZ>>),
     Doc(TitleT, ShortAbstract, Absent, <<RY>>)}

\* --------------------------------------------------------- GrobidClient

\* The loop over refs: a reference is kept when its title element is found
\* and its text is truthy.
RECURSIVE ExtractReferences(_)
ExtractReferences(refs) ==
    IF refs = <<>> THEN <<>>
    ELSE LET ref_title == Head(refs)
             rest == ExtractReferences(Tail(refs))
         IN  IF ref_title.found /\ Truthy(ref_title.text)
             THEN <<ref_title.text.s>> \o rest
             ELSE rest

\* extract_text_from_xml on a document that parses.
ExtractTextFromXml(doc) ==
    [title      |-> IF doc.title.found THEN doc.title.text ELSE Str(<<>>),
     abstract   |-> IF doc.abstract.found THEN doc.abstract.text ELSE Str(<<>>),
     body       |-> IF doc.body.found THEN doc.body.text ELSE Str(<<>>),
     references |-> ExtractReferences(doc.refs)]

\* What one call of the extraction service can do: the request raises, the
\* status is not 200, the body does not parse as XML, or it is a document.
Responses ==
    {[kind |-> "exception", doc |-> Doc(Absent, Absent, Absent, <<>>)],
     [kind |-> "http_error", doc |-> Doc(Absent, Absent, Absent, <<>>)],
     [kind |-> "bad_xml", doc |-> Doc(Absent, Absent, Absent, <<>>)]}
    \cup {[kind |-> "ok", doc |-> d] : d \in Docs}

\* The result of process_pdf: [ok, paper]; ok = FALSE stands for None.
NoPaper == [ok |-> FALSE, paper |-> ExtractTextFromXml(Doc(Absent, Absent, Absent, <<>>))]

ProcessPdf(resp) ==
    IF resp.kind = "ok"
    THEN [ok |-> TRUE, paper |-> ExtractTextFromXml(resp.doc)]
    ELSE NoPaper

\* ---------------------------------------- LiteratureAnalyzer: operators

\* bool(paper) for a dict: a dict with no key is falsy.
DictTruthy(d) == DOMAIN d # {}

Space == <<" ">>

\* The f-string of extract_common_themes: title, abstract and body joined
\* by single spaces, each formatted by str().
AggregateText(paper) ==
    Format(Get(paper, "title", Str(<<>>))) \o Space
    \o Format(Get(paper, "abstract", Str(<<>>))) \o Space
    \o Format(Get(paper, "body", Str(<<>>)))

\* texts: one text per truthy paper, in corpus order.
RECURSIVE Texts(_)
Texts(papers) ==
    IF papers = <<>> THEN <<>>
    ELSE IF DictTruthy(Head(papers))
         THEN <<AggregateText(Head(papers))>> \o Texts(Tail(papers))
         ELSE Texts(Tail(papers))

\* n_components of NMF: the number of rows of nmf.components_.
NumThemes == 5

\* The slice [:-10:-1] takes the last TopN entries, last first.
TopN == 9

\* min_df of the vectorizer: a term must occur in this many documents.
MinDf == 2

\* max_df = 0.95 as a fraction of the number of documents.
MaxDfNum == 95
MaxDfDen == 100

\* The vocabulary sizes the vectorizer may leave.
VocabSizes == {3, 10}

\* What the two library calls can do on n texts.  fit_transform raises when
\* max_df * n < min_df and when no term survives the document-frequency
\* pruning; NMF.fit_transform may raise; otherwise the vocabulary has nterms
\* terms and components_ is NumThemes rows of nterms weights.
LibOutcomes(n) ==
    {[kind |-> "vectorizer_raises", nterms |-> 0]}
    \cup (IF MaxDfNum * n < MinDf * MaxDfDen THEN {}
          ELSE {[kind |-> "nmf_raises", nterms |-> 0]}
               \cup {[kind |-> "ok", nterms |-> v] : v \in VocabSizes})

\* nmf.components_: row k holds one weight per term; the weights of a row
\* are pairwise different.
Components(nterms) ==
    [k \in 1..NumThemes |-> [j \in 1..nterms |-> ((j + k) % nterms) + 1]]

\* Insert index i into the ascending index list order (by weight w), after
\* the entries of equal weight.
RECURSIVE InsertByWeight(_, _, _)
InsertByWeight(order, i, w) ==
    IF order = <<>> THEN <<i>>
    ELSE IF w[i] < w[Head(order)] THEN <<i>> \o order
         ELSE <<Head(order)>> \o InsertByWeight(Tail(order), i, w)

\* topic.argsort(): the indices of w in ascending order of weight.
RECURSIVE ArgSortUpTo(_, _)
ArgSortUpTo(w, n) ==
    IF n = 0 THEN <<>> ELSE InsertByWeight(ArgSortUpTo(w, n - 1), n, w)

ArgSort(w) == ArgSortUpTo(w, Len(w))

\* order[-9:]: the last TopN entries in ascending order, the reversal of
\* the slice left out.
LastNotReversed(order) ==
    LET n == Len(order)
        m == IF n < TopN THEN n ELSE TopN
    IN  [i \in 1..m |-> order[n - m + i]]

\* order[:-10:-1]: from the last entry backwards, at most TopN entries.
LastReversed(order) ==
    LET n == Len(order)
        m == IF n < TopN THEN n ELSE TopN
    IN  [i \in 1..m |-> order[n + 1 - i]]

\* The themes built from components_; feature_names[i] is term i.
BuildThemes(components) ==
    [k \in 1..Len(components) |->
        [theme |-> k, keywords |-> LastReversed(ArgSort(components[k]))]]

\* extract_common_themes reaches the library calls: it returns before them
\* when there is no paper and when no paper gave a text.
LibraryCalled(papers) == papers # <<>> /\ Texts(papers) # <<>>

\* vectorizer.get_feature_names_out(): term i of the vocabulary is named i.
\* It is assigned only when both library calls have returned.
FeatureNames(papers, lib) ==
    IF LibraryCalled(papers) /\ lib.kind = "ok"
    THEN [i \in 1..lib.nterms |-> i]
    ELSE <<>>

\* The try block of extract_common_themes: a raise of either library call
\* leaves the block with an exception.
ThemesTryBody(texts, lib) ==
    IF lib.kind = "ok"
    THEN [raised |-> FALSE, themes |-> BuildThemes(Components(lib.nterms))]
    ELSE [raised |-> TRUE, themes |-> <<>>]

\* The try block with no except clause: the exception leaves the call.
NoExcept(r) == r

\* except Exception: the error is logged and [] is returned.
ExceptReturnEmpty(r) ==
    IF r.raised THEN [raised |-> FALSE, themes |-> <<>>] ELSE r

\* extract_common_themes: [raised, themes].
ExtractCommonThemes(papers, lib) ==
    IF papers = <<>> THEN [raised |-> FALSE, themes |-> <<>>]
    ELSE IF Texts(papers) = <<>> THEN [raised |-> FALSE, themes |-> <<>>]
    ELSE ExceptReturnEmpty(ThemesTryBody(Texts(papers), lib))

\* The elements of a list.
Range(f) == {f[i] : i \in DOMAIN f}

\* reference_stats before the loop of analyze_references.
InitialStats ==
    [total_references |-> 0, common_references |-> {}, reference_years |-> <<>>]

\* The set update of one iteration: update() when the accumulated set has
\* no element, intersection_update() otherwise.
UpdateCommon(common, refs) ==
    IF Cardinality(common) = 0 THEN common \cup Range(refs)
    ELSE common \cap Range(refs)

\* One iteration of the loop of analyze_references.
RefStep(stats, paper) ==
    IF DictTruthy(paper) /\ "references" \in DOMAIN paper
    THEN [stats EXCEPT
            !.total_references = @ + Len(paper.references),
            !.common_references = UpdateCommon(@, paper.references)]
    ELSE stats

RECURSIVE GCD(_, _)
GCD(a, b) == IF b = 0 THEN a ELSE GCD(b, a % b)

\* A quotient of two naturals, in lowest terms.
Quotient(a, b) == [num |-> a \div GCD(a, b), den |-> b \div GCD(a, b)]

\* The average with the guard on the empty corpus left out.
AvgReferencesUnguarded(total, n) == [num |-> total, den |-> n]

\* total / len(papers_data) if papers_data else 0
AvgReferences(total, n) ==
    IF n # 0 THEN Quotient(total, n) ELSE [num |-> 0, den |-> 1]

\* The statements after the loop: the common set becomes a list (kept here
\* as the set of its elements) and the average is added.
RefFinish(stats, papers) ==
    [total_references |-> stats.total_references,
     common_references |-> stats.common_references,
     reference_years |-> stats.reference_years,
     avg_references_per_paper |-> AvgReferences(stats.total_references, Len(papers))]

\* The loop of analyze_references over papers, from stats.
RECURSIVE RefLoop(_, _)
RefLoop(stats, papers) ==
    IF papers = <<>> THEN stats
    ELSE RefLoop(RefStep(stats, Head(papers)), Tail(papers))

\* analyze_references on a corpus.
AnalyzeReferences(papers) == RefFinish(RefLoop(InitialStats, papers), papers)

\* The abstract of one summary entry with the slice one character short.
SummaryAbstractShortSlice(paper) ==
    IF Truthy(Get(paper, "abstract", None))
    THEN Prefix(Get(paper, "abstract", Str(NoAbstract)).s, AbstractLimit - 1) \o Ellipsis
    ELSE NoAbstract

\* The abstract of one summary entry.
SummaryAbstract(paper) ==
    IF Truthy(Get(paper, "abstract", None))
    THEN Prefix(Get(paper, "abstract", Str(NoAbstract)).s, AbstractLimit) \o Ellipsis
    ELSE NoAbstract

\* The title of one summary entry: a str, or None.
SummaryTitle(paper) == Get(paper, "title", Str(UnknownTitle))

\* papers_summary: one entry per truthy paper, in corpus order.
RECURSIVE PapersSummary(_)
PapersSummary(papers) ==
    IF papers = <<>> THEN <<>>
    ELSE IF DictTruthy(Head(papers))
         THEN <<[title |-> SummaryTitle(Head(papers)),
                 abstract |-> SummaryAbstract(Head(papers))]>>
              \o PapersSummary(Tail(papers))
         ELSE PapersSummary(Tail(papers))

\* ------------------------------------------------------------- the state

VARIABLES
    numFiles,            \* len(pdf_files): the PDF files of the input directory
    pc,                  \* the position of the program
    op,                  \* the operation running or last run on the analyzer
    attempts,            \* one entry per call of process_pdf: the response and the result
    papers_data,         \* self.papers_data
    texts,               \* texts of extract_common_themes
    themeLib,            \* what the library calls of extract_common_themes did
    feature_names,       \* feature_names of extract_common_themes: <<>> until assigned
    themes,              \* themes of generate_review
    refIdx,              \* the papers the loop of analyze_references has consumed
    reference_stats,     \* reference_stats during the loop
    reference_analysis,  \* reference_analysis of generate_review: <<>> until computed
    review,              \* the review dict: <<>> until assembled
    artifacts            \* the files of output/: [file, complete]

vars ==
    <<numFiles, pc, op, attempts, papers_data, texts, themeLib, feature_names,
      themes, refIdx, reference_stats, reference_analysis, review, artifacts>>

analysisVars ==
    <<texts, themeLib, feature_names, themes, refIdx, reference_stats,
      reference_analysis, review, artifacts>>

ReviewJson == "literature_review.json"

ReportMd == "comprehensive_report.md"

\* What a write of an artifact (open, then write or json.dump) can do: the
\* file is written, open raises and no file is made, or open makes the file
\* and the write raises, which leaves a truncated file.
IoOutcomes == {"written", "io_error", "truncated"}

\* The write raised.
IoRaised(io) == io # "written"

\* output/ after a write of file: open(file, 'w') replaces the file.
WriteFile(files, file, io) ==
    IF io = "io_error" THEN files
    ELSE {a \in files : a.file # file} \cup {[file |-> file, complete |-> io = "written"]}

\* The file exists in output/ and was written to its end.
Written(file) == [file |-> file, complete |-> TRUE] \in artifacts

Init ==
    /\ numFiles \in 0..MaxFiles
    /\ pc = "start"
    /\ op = "process_papers"
    /\ attempts = <<>>
    /\ papers_data = <<>>
    /\ texts = <<>>
    /\ themeLib = "not_called"
    /\ feature_names = <<>>
    /\ themes = <<>>
    /\ refIdx = 0
    /\ reference_stats = InitialStats
    /\ reference_analysis = <<>>
    /\ review = <<>>
    /\ artifacts = {}

\* ------------------------------------------------------- process_papers

\* check_server: when the service does not answer, process_papers returns
\* before the loop.
CheckServer ==
    /\ pc = "start"
    /\ \E alive \in BOOLEAN :
         pc' = IF alive /\ numFiles > 0 THEN "ingest"
               ELSE IF alive THEN "idle" ELSE "idle_server_down"
    /\ UNCHANGED <<numFiles, op, attempts, papers_data, analysisVars>>

\* The body of the loop with the test of the result left out.
AppendAlways(papers, result) == Append(papers, result.paper)

\* The body of the loop for one file: the record is appended when
\* process_pdf returned one.
AppendIfExtracted(papers, result) ==
    IF result.ok THEN Append(papers, result.paper) ELSE papers

\* One iteration of the loop over pdf_files.
ProcessOneFile ==
    /\ pc = "ingest"
    /\ Len(attempts) < numFiles
    /\ \E resp \in Responses :
         LET result == ProcessPdf(resp)
         IN  /\ papers_data' = AppendIfExtracted(papers_data, result)
             /\ attempts' = Append(attempts, [kind |-> resp.kind, result |-> result])
    /\ pc' = IF Len(attempts') = numFiles THEN "idle" ELSE "ingest"
    /\ UNCHANGED <<numFiles, op, analysisVars>>

\* process_papers has returned.
Idle == pc \in {"idle", "idle_server_down"}

\* ------------------------------------------------------ generate_review

CallGenerateReview ==
    /\ Idle
    /\ pc' = "gr_themes"
    /\ op' = "generate_review"
    /\ UNCHANGED <<numFiles, attempts, papers_data, analysisVars>>

\* themes = self.extract_common_themes()
GrExtractThemes ==
    /\ pc = "gr_themes"
    /\ \E lib \in LibOutcomes(Len(Texts(papers_data))) :
         LET r == ExtractCommonThemes(papers_data, lib)
         IN  /\ themeLib' = IF LibraryCalled(papers_data) THEN lib.kind ELSE "not_called"
             /\ texts' = Texts(papers_data)
             /\ feature_names' = FeatureNames(papers_data, lib)
             /\ themes' = r.themes
             /\ pc' = IF r.raised THEN "raised" ELSE "gr_refs"
    /\ refIdx' = 0
    /\ reference_stats' = InitialStats
    /\ UNCHANGED <<numFiles, op, attempts, papers_data, reference_analysis,
                   review, artifacts>>

\* One iteration of the loop with the paper's own list emptied as it is
\* consumed (the list object shared with the accumulator and cleared).
GrRefStepClearingList ==
    /\ pc = "gr_refs"
    /\ refIdx < Len(papers_data)
    /\ reference_stats' = RefStep(reference_stats, papers_data[refIdx + 1])
    /\ refIdx' = refIdx + 1
    /\ papers_data' = [papers_data EXCEPT ![refIdx + 1].references = <<>>]
    /\ UNCHANGED <<numFiles, pc, op, attempts, texts, themeLib,
                   feature_names, themes, reference_analysis, review, artifacts>>

\* One iteration of the loop of analyze_references.
GrRefStep ==
    /\ pc = "gr_refs"
    /\ refIdx < Len(papers_data)
    /\ reference_stats' = RefStep(reference_stats, papers_data[refIdx + 1])
    /\ refIdx' = refIdx + 1
    /\ UNCHANGED <<numFiles, pc, op, attempts, papers_data, texts, themeLib,
                   feature_names, themes, reference_analysis, review, artifacts>>

\* The loop has ended: analyze_references returns.
GrRefFinish ==
    /\ pc = "gr_refs"
    /\ refIdx = Len(papers_data)
    /\ reference_analysis' = <<RefFinish(reference_stats, papers_data)>>
    /\ pc' = "gr_assemble"
    /\ UNCHANGED <<numFiles, op, attempts, papers_data, texts, themeLib, themes,
                   feature_names, refIdx, reference_stats, review, artifacts>>

\* The review dict of generate_review.
GrAssemble ==
    /\ pc = "gr_assemble"
    /\ review' = <<[total_papers |-> Len(papers_data),
                    common_themes |-> themes,
                    reference_analysis |-> reference_analysis[1],
                    papers_summary |-> PapersSummary(papers_data)]>>
    /\ pc' = "gr_write"
    /\ UNCHANGED <<numFiles, op, attempts, papers_data, texts, themeLib, themes,
                   feature_names, refIdx, reference_stats, reference_analysis, artifacts>>

\* The write of literature_review.json inside try/except: a failure is
\* logged and generate_review returns.
GrWrite ==
    /\ pc = "gr_write"
    /\ \E io \in IoOutcomes : artifacts' = WriteFile(artifacts, ReviewJson, io)
    /\ pc' = "done"
    /\ UNCHANGED <<numFiles, op, attempts, papers_data, texts, themeLib, themes,
                   feature_names, refIdx, reference_stats, reference_analysis, review>>

\* -------------------------------------------------------------- analyze

CallAnalyze ==
    /\ Idle
    /\ pc' = "an_papers"
    /\ op' = "analyze"
    /\ UNCHANGED <<numFiles, attempts, papers_data, analysisVars>>

\* self.analyze_papers(): the comprehensive report is written with no
\* try/except around the write.
AnAnalyzePapers ==
    /\ pc = "an_papers"
    /\ \E io \in IoOutcomes :
         /\ artifacts' = WriteFile(artifacts, ReportMd, io)
         /\ pc' = IF IoRaised(io) THEN "raised" ELSE "an_assemble"
    /\ UNCHANGED <<numFiles, op, attempts, papers_data, texts, themeLib, themes,
                   feature_names, refIdx, reference_stats, reference_analysis, review>>

\* The review dict of analyze.
AnAssemble ==
    /\ pc = "an_assemble"
    /\ review' = <<[total_papers |-> Len(papers_data),
                    papers_summary |-> PapersSummary(papers_data)]>>
    /\ pc' = "an_write"
    /\ UNCHANGED <<numFiles, op, attempts, papers_data, texts, themeLib, themes,
                   feature_names, refIdx, reference_stats, reference_analysis, artifacts>>

\* The write of literature_review.json, with no try/except.
AnWrite ==
    /\ pc = "an_write"
    /\ \E io \in IoOutcomes :
         /\ artifacts' = WriteFile(artifacts, ReviewJson, io)
         /\ pc' = IF IoRaised(io) THEN "raised" ELSE "done"
    /\ UNCHANGED <<numFiles, op, attempts, papers_data, texts, themeLib, themes,
                   feature_names, refIdx, reference_stats, reference_analysis, review>>

\* ------------------------------------------ generate_comprehensive_report

CallGenerateComprehensiveReport ==
    /\ Idle
    /\ pc' = "cr_write"
    /\ op' = "generate_comprehensive_report"
    /\ UNCHANGED <<numFiles, attempts, papers_data, analysisVars>>

\* The report dict and its Markdown are built from fixed text and
\* len(papers_data); comprehensive_report.md is written with no try/except.
CrWrite ==
    /\ pc = "cr_write"
    /\ \E io \in IoOutcomes :
         /\ artifacts' = WriteFile(artifacts, ReportMd, io)
         /\ pc' = IF IoRaised(io) THEN "raised" ELSE "done"
    /\ UNCHANGED <<numFiles, op, attempts, papers_data, texts, themeLib, themes,
                   feature_names, refIdx, reference_stats, reference_analysis, review>>

Next ==
    \/ CheckServer
    \/ ProcessOneFile
    \/ CallGenerateReview
    \/ GrExtractThemes
    \/ GrRefStep
    \/ GrRefFinish
    \/ GrAssemble
    \/ GrWrite
    \/ CallAnalyze
    \/ AnAnalyzePapers
    \/ AnAssemble
    \/ AnWrite
    \/ CallGenerateComprehensiveReport
    \/ CrWrite

Spec == Init /\ [][Next]_vars

\* ------------------------------------------------- reference statements

\* The references that occur in the reference list of every paper; no
\* reference for an empty corpus.
IntersectionOfRefs(papers) ==
    IF papers = <<>> THEN {}
    ELSE {r \in Range(papers[1].references) :
            \A i \in 1..Len(papers) : r \in Range(papers[i].references)}

\* The corpora that hold the papers of a corpus in another order.
Reorderings(papers) ==
    {[i \in 1..Len(papers) |-> papers[f[i]]] : f \in Permutations(1..Len(papers))}

\* The records of the successful attempts, in the order of the attempts.
RECURSIVE Successes(_)
Successes(log) ==
    IF log = <<>> THEN <<>>
    ELSE IF Head(log).kind = "ok"
         THEN <<Head(log).result.paper>> \o Successes(Tail(log))
         ELSE Successes(Tail(log))

\* analyze_references has returned in this run of generate_review.
RefsAnalyzed == reference_analysis # <<>>

\* The review dict has been assembled.
ReviewAssembled == review # <<>>

\* extract_common_themes has returned to generate_review.
ThemesReturned == op = "generate_review" /\ pc \notin {"gr_themes", "raised"}

\* C1: whenever analyze_references has returned, common_references is the
\* intersection of the reference sets of all papers of the corpus (empty
\* for an empty corpus).
C1_CommonIsIntersection ==
    RefsAnalyzed =>
        reference_analysis[1].common_references = IntersectionOfRefs(papers_data)

\* C2: in the pass of analyze_references, once the first paper has been
\* consumed, consuming one more paper never adds an element to the
\* accumulated common set.
C2_CommonNeverGains ==
    [][(pc = "gr_refs" /\ refIdx >= 1 /\ refIdx' = refIdx + 1)
        => reference_stats'.common_references \subseteq reference_stats.common_references]_vars

\* C3: whenever analyze_references has returned and some paper of the
\* corpus has an empty reference list, common_references is empty.
C3_EmptyListCollapses ==
    (RefsAnalyzed /\ \E i \in 1..Len(papers_data) : papers_data[i].references = <<>>)
        => reference_analysis[1].common_references = {}

\* C4: the result analyze_references returned is the result it returns on
\* every reordering of the corpus.
C4_OrderIndependent ==
    RefsAnalyzed =>
        \A q \in Reorderings(papers_data) : AnalyzeReferences(q) = reference_analysis[1]

\* C5: on an empty corpus extract_common_themes returns no theme and does
\* not raise, analyze_references returns total 0, no common reference and
\* average 0, and the review is assembled with total_papers 0 and an empty
\* papers_summary.
C5_EmptyCorpusSafety ==
    (papers_data = <<>> /\ op \in {"generate_review", "analyze"}) =>
        /\ op = "generate_review" => pc # "raised"
        /\ ThemesReturned => themes = <<>>
        /\ RefsAnalyzed =>
             /\ reference_analysis[1].total_references = 0
             /\ reference_analysis[1].common_references = {}
             /\ reference_analysis[1].avg_references_per_paper = [num |-> 0, den |-> 1]
        /\ ReviewAssembled =>
             /\ review[1].total_papers = 0
             /\ review[1].papers_summary = <<>>
        /\ pc = "done" => ReviewAssembled
        /\ (pc = "done" /\ op = "generate_review") => RefsAnalyzed

\* C5 witness: generate_review has returned on an empty corpus although
\* files were attempted.
C5_Witness ==
    /\ papers_data = <<>>
    /\ op = "generate_review"
    /\ pc = "done"
    /\ Len(attempts) > 0

\* C6: in every assembled review (generate_review and analyze), the summary
\* of a paper holds the first 500 characters of its abstract followed by
\* '...' when the abstract is longer than 500 characters, the whole abstract
\* followed by '...' when it is not empty and at most 500 characters long,
\* and exactly 'No abstract available' when there is no abstract.
C6_TruncationLaw ==
    ReviewAssembled =>
        /\ Len(review[1].papers_summary) = Len(papers_data)
        /\ \A i \in 1..Len(papers_data) :
             LET a == papers_data[i].abstract.s
                 summary == review[1].papers_summary[i].abstract
             IN  /\ Len(a) > AbstractLimit =>
                        summary = SubSeq(a, 1, AbstractLimit) \o Ellipsis
                 /\ (Len(a) > 0 /\ Len(a) <= AbstractLimit) => summary = a \o Ellipsis
                 /\ Len(a) = 0 => summary = NoAbstract

\* C6 witness: a review assembled by analyze over a corpus with an abstract
\* over the limit, one exactly at the limit and a missing one.
C6_Witness ==
    /\ ReviewAssembled
    /\ op = "analyze"
    /\ \E i, j, k \in 1..Len(papers_data) :
         /\ Len(papers_data[i].abstract.s) = AbstractLimit + 1
         /\ Len(papers_data[j].abstract.s) = AbstractLimit
         /\ Len(papers_data[k].abstract.s) = 0

\* C7: in every assembled review the summary title of a paper with no title
\* (None or '') is 'Unknown Title', and the summary title of a paper with a
\* title is that title.
C7_AbsentTitleDefaults ==
    ReviewAssembled =>
        \A i \in 1..Len(papers_data) :
            review[1].papers_summary[i].title =
                IF Truthy(papers_data[i].title) THEN papers_data[i].title
                ELSE Str(UnknownTitle)

\* The text of a field when a missing value (None or '') contributes ''.
FieldOrEmpty(v) == IF Truthy(v) THEN v.s ELSE <<>>

\* C8: the text built for each paper is title, abstract and body joined by
\* single spaces, where a missing field contributes the empty string.
C8_MissingFieldsContributeEmpty ==
    ThemesReturned =>
        /\ Len(texts) = Len(papers_data)
        /\ \A i \in 1..Len(papers_data) :
             texts[i] = FieldOrEmpty(papers_data[i].title) \o Space
                        \o FieldOrEmpty(papers_data[i].abstract) \o Space
                        \o FieldOrEmpty(papers_data[i].body)

\* C9 as claimed: when process_papers has returned, every file has been
\* attempted and papers_data is the sequence of the extracted records.
C9_EveryFileAttempted ==
    Idle => (Len(attempts) = numFiles /\ papers_data = Successes(attempts))

\* C9 as amended: when process_papers has returned after the service
\* answered the liveness check, every file has been attempted and
\* papers_data is the sequence of the extracted records in file order; at
\* every step papers_data is the sequence of the records extracted so far;
\* when the check failed no file was attempted and the corpus is empty.
C9_AttemptedWhenServerAlive ==
    /\ papers_data = Successes(attempts)
    /\ pc = "idle" => Len(attempts) = numFiles
    /\ pc = "idle_server_down" => (attempts = <<>> /\ papers_data = <<>>)

\* C9 witness: process_papers has returned after three attempts of which
\* the first raised, the second succeeded and the third had a bad status.
C9_Witness ==
    /\ pc = "idle"
    /\ Len(attempts) = 3
    /\ attempts[1].kind = "exception"
    /\ attempts[2].kind = "ok"
    /\ attempts[3].kind = "http_error"
    /\ Len(papers_data) = 1

\* The library calls of extract_common_themes raised in this run.
ThemeExtractionFailed ==
    op = "generate_review" /\ themeLib \in {"vectorizer_raises", "nmf_raises"}

\* C10: when a library call of extract_common_themes raises, no exception
\* leaves extract_common_themes, the themes are empty, analyze_references
\* returns what it returns on the corpus, and generate_review ends with the
\* review assembled from both.
C10_StageIsolation ==
    ThemeExtractionFailed =>
        /\ pc # "raised"
        /\ themes = <<>>
        /\ RefsAnalyzed => reference_analysis[1] = AnalyzeReferences(papers_data)
        /\ pc = "done" =>
             /\ RefsAnalyzed
             /\ ReviewAssembled
             /\ review[1].common_themes = <<>>
             /\ review[1].reference_analysis = AnalyzeReferences(papers_data)
             /\ review[1].total_papers = Len(papers_data)

\* C10 witness: generate_review has returned and written the review after
\* the factorization raised on a corpus of three papers.
C10_Witness ==
    /\ op = "generate_review"
    /\ themeLib = "nmf_raises"
    /\ pc = "done"
    /\ Len(papers_data) = 3
    /\ Written(ReviewJson)

\* C11: in a run of main (process_papers, then analyze), an artifact is
\* written only after ingestion has finished, extract_common_themes has
\* returned and analyze_references has returned in that run.
C11_ArtifactsAfterAnalysis ==
    (op = "analyze" /\ (Written(ReportMd) \/ Written(ReviewJson))) =>
        /\ pc \notin {"start", "ingest"}
        /\ ThemesReturned
        /\ RefsAnalyzed

\* papers is papers_data with one record appended.
IsAppendOf(papers, before) ==
    /\ Len(papers) = Len(before) + 1
    /\ SubSeq(papers, 1, Len(before)) = before

\* C12: every step of extract_common_themes, analyze_references,
\* generate_review, analyze_papers and analyze leaves papers_data as it was
\* (length, order and every field of every paper); the only change of
\* papers_data is an append by the loop of process_papers.
C12_CorpusReadOnly ==
    [][/\ pc \notin {"start", "ingest"} => papers_data' = papers_data
       /\ papers_data' # papers_data =>
            (pc = "ingest" /\ IsAppendOf(papers_data', papers_data))]_vars

\* C12 witness: analyze has returned on a corpus of two papers, one of
\* three files having failed.
C12_Witness ==
    /\ op = "analyze"
    /\ pc = "done"
    /\ Len(attempts) = 3
    /\ Len(papers_data) = 2
    /\ Written(ReviewJson)
    /\ Written(ReportMd)

\* The keywords kw are m pairwise different terms of a vocabulary of v
\* terms, in descending order of their weight in row w, and no term left
\* out weighs more than one of them.
IsTopTerms(kw, m, w, v) ==
    LET row == w
    IN  /\ Len(kw) = m
        /\ \A i \in 1..m : kw[i] \in 1..v
        /\ \A i, j \in 1..m : i < j => (kw[i] # kw[j] /\ row[kw[i]] >= row[kw[j]])
        /\ \A t \in 1..v :
             (\A i \in 1..m : kw[i] # t) => \A i \in 1..m : row[t] <= row[kw[i]]

\* extract_common_themes has just returned themes to generate_review.
ThemesJustReturned == themes # <<>> /\ pc = "gr_refs" /\ refIdx = 0

\* C13 as claimed: a non-empty result of extract_common_themes has 5
\* themes, the k-th labelled k, each with exactly 9 keywords: the 9 terms of
\* largest weight in its row, in descending order of weight.
C13_NineKeywords ==
    ThemesJustReturned =>
        /\ Len(themes) = NumThemes
        /\ \A k \in 1..Len(themes) :
             /\ themes[k].theme = k
             /\ IsTopTerms(themes[k].keywords, TopN,
                           Components(Len(feature_names))[k], Len(feature_names))

\* C13 as amended: a non-empty result has 5 themes, the k-th labelled k,
\* each with min(9, vocabulary size) keywords: the terms of largest weight
\* in its row, pairwise different, in descending order of weight.
C13_ThemeShape ==
    ThemesJustReturned =>
        /\ Len(themes) = NumThemes
        /\ \A k \in 1..Len(themes) :
             /\ themes[k].theme = k
             /\ IsTopTerms(themes[k].keywords,
                           IF Len(feature_names) < TopN THEN Len(feature_names) ELSE TopN,
                           Components(Len(feature_names))[k], Len(feature_names))

\* C13 witness: extract_common_themes has returned themes over a vocabulary
\* of fewer than 9 terms.
C13_Witness ==
    /\ themes # <<>>
    /\ Len(feature_names) > 0
    /\ Len(feature_names) < TopN
    /\ pc = "gr_refs"
    /\ refIdx = 0

====
